---- MODULE Spec2Model ----
(***************************************************************************)
(* VoiceDiary backend: the analysis pipeline of backend/ai_service.py      *)
(* (AIService.transcribe_audio, analyze_audio_features, analyze_sentiment, *)
(* generate_feedback, process_audio_full) as a state machine.              *)
(*                                                                         *)
(* Strings the code computes on (the transcript, the feedback text) are    *)
(* sequences of one-character strings.  A fixed message of the code is a   *)
(* one-element sequence holding the message.  Scores are in tenths         *)
(* (0.5 is 5, 1.0 is 10).                                                  *)
(***************************************************************************)
EXTENDS Integers, Sequences, FiniteSets, TLC

\* ------------------------------------------------------------------ bounds
\* longest transcript / feedback text the services answer with
MaxTextLen == 5
\* uploads that get as far as a file name
MaxUploads == 3
\* process_audio_full calls that run at the same time on one AIService
NumRuns == 2

\* ------------------------------------------------------- program constants
\* mutant: one attempt too many
MAX_ATTEMPTS_OffByOne == 5 + 1
MAX_ATTEMPTS == 5
DEFAULT_WAIT == 20
MAX_WAIT == 60
FAULT_DELAY == 5
\* mutant: the minimum length is one too small
MIN_TRANSCRIPT_LEN_OffByOne == 5 - 1
MIN_TRANSCRIPT_LEN == 5

\* a local / a result that has not been assigned
NONE == [kind |-> "none"]

\* what a block of code ends with: a value, or an exception
Ok(v) == [exc |-> FALSE, v |-> v]
Exc(e) == [exc |-> TRUE, e |-> e]

Min(a, b) == IF a < b THEN a ELSE b
Max(a, b) == IF a > b THEN a ELSE b

\* ------------------------------------------------------------------ strings
\* the texts the services answer with: a body of n letters, with a space
\* inside or not, between i and j spaces
Spaces(i) == [k \in 1..i |-> " "]
Body(n, inner) == [k \in 1..n |-> IF inner /\ k = 2 /\ n >= 3 THEN " " ELSE "a"]
Texts == {Spaces(i) \o Body(n, inner) \o Spaces(j) :
             <<i, n, j>> \in {t \in (0..MaxTextLen) \X (0..MaxTextLen) \X (0..MaxTextLen) :
                                t[1] + t[2] + t[3] <= MaxTextLen},
             inner \in BOOLEAN}

RECURSIVE lstrip(_)
lstrip(s) == IF s = <<>> THEN s
             ELSE IF Head(s) = " " THEN lstrip(Tail(s)) ELSE s

RECURSIVE rstrip(_)
rstrip(s) == IF s = <<>> THEN s
             ELSE IF s[Len(s)] = " " THEN rstrip(SubSeq(s, 1, Len(s) - 1)) ELSE s

\* str.strip()
strip(s) == rstrip(lstrip(s))

\* ------------------------------------------- the speech-to-text transport
\* A field of a JSON body: absent, present with a value of the wrong type
\* (null, a string where a number is expected, ...), or present and usable.
HintValues == {-1, 30, 90}
Hints == {[has |-> FALSE], [has |-> TRUE, num |-> FALSE]}
         \cup {[has |-> TRUE, num |-> TRUE, val |-> v] : v \in HintValues}
TextFields == {[has |-> FALSE], [has |-> TRUE, str |-> FALSE]}
              \cup {[has |-> TRUE, str |-> TRUE, val |-> t] : t \in Texts}
\* resp.json(): raises (not JSON), a JSON value that is no object, an object
Bodies == {[form |-> "notjson"], [form |-> "nonobject"]}
          \cup {[form |-> "object", estimated_time |-> h, text |-> t] :
                   h \in Hints, t \in TextFields}
Statuses == {200, 401, 500, 503}
\* what one requests.post call produces: it raises (timeout, connection
\* error), or it returns a response
WhisperResponses == {[kind |-> "fault"]}
                    \cup {[kind |-> "http", status |-> s, body |-> b] :
                             s \in Statuses, b \in Bodies}

\* wait = 20; try: wait = resp.json().get("estimated_time", 20); except: pass
HintWait(body) ==
    IF body.form = "object" /\ body.estimated_time.has
    THEN body.estimated_time
    ELSE [has |-> TRUE, num |-> TRUE, val |-> DEFAULT_WAIT]

Retry(path, d) == [kind |-> "retry", path |-> path, sleep |-> d]

\* the 503 branch of one loop iteration: the progress message formats wait
\* as a number and time.sleep rejects a negative length; either exception
\* lands in the generic handler, which sleeps the fixed delay
Branch503(body) ==
    LET wait == HintWait(body) IN
    IF ~wait.num THEN Retry("fault", FAULT_DELAY)
    ELSE IF Min(wait.val, MAX_WAIT) < 0 THEN Retry("fault", FAULT_DELAY)
    ELSE Retry("503", Min(wait.val, MAX_WAIT))

\* mutant: the text is not trimmed
BranchSuccess_NoStrip(body) ==
    IF body.form # "object" THEN Retry("fault", FAULT_DELAY)
    ELSE IF ~body.text.has
         THEN [kind |-> "return", text |-> <<>>, language |-> "auto"]
    ELSE IF ~body.text.str THEN Retry("fault", FAULT_DELAY)
    ELSE [kind |-> "return", text |-> body.text.val, language |-> "auto"]

\* mutant: a success body without a usable transcript is an empty transcript
BranchSuccess_Lenient(body) ==
    IF body.form # "object" \/ ~body.text.has \/ ~body.text.str
    THEN [kind |-> "return", text |-> <<>>, language |-> "auto"]
    ELSE [kind |-> "return", text |-> strip(body.text.val), language |-> "auto"]

\* resp.raise_for_status(); result = resp.json();
\* text = result.get("text", "").strip(); return {...}
BranchSuccess(body) ==
    IF body.form # "object" THEN Retry("fault", FAULT_DELAY)
    ELSE IF ~body.text.has
         THEN [kind |-> "return", text |-> strip(<<>>), language |-> "auto"]
    ELSE IF ~body.text.str THEN Retry("fault", FAULT_DELAY)
    ELSE [kind |-> "return", text |-> strip(body.text.val), language |-> "auto"]

\* mutant: an HTTP error is retried like a transport fault
AttemptOutcome_RetryHttp(resp) ==
    IF resp.kind = "fault" THEN Retry("fault", FAULT_DELAY)
    ELSE IF resp.status = 503 THEN Branch503(resp.body)
    ELSE IF resp.status >= 400 /\ resp.status < 600 THEN Retry("fault", FAULT_DELAY)
    ELSE BranchSuccess(resp.body)

\* one iteration of the retry loop of transcribe_audio
AttemptOutcome(resp) ==
    IF resp.kind = "fault" THEN Retry("fault", FAULT_DELAY)
    ELSE IF resp.status = 503 THEN Branch503(resp.body)
    ELSE IF resp.status >= 400 /\ resp.status < 600
         THEN [kind |-> "raise", cause |-> "HTTPError"]
    ELSE BranchSuccess(resp.body)

\* mutant: the last iteration does not sleep before the loop runs out
Sleeps_NotLast(att, o) == o.kind = "retry" /\ att + 1 < MAX_ATTEMPTS

\* time.sleep is called inside the loop body, whatever the loop index
Sleeps(att, o) == o.kind = "retry"

\* what resp.json() of a response with a success status holds: no JSON, a
\* JSON value that is no object, an object without text, with a text that is
\* no string, with a text
BodyShape(resp) ==
    IF resp.kind # "http" \/ resp.status >= 400 THEN "none"
    ELSE IF resp.body.form # "object" THEN resp.body.form
    ELSE IF ~resp.body.text.has THEN "notext"
    ELSE IF ~resp.body.text.str THEN "badtext"
    ELSE "text"

\* mutant: the loop running out falls through to an empty transcript
Exhausted_ReturnsEmpty == [kind |-> "return", text |-> <<>>, language |-> "auto"]

\* raise Exception("Whisper 5 denemede yanit vermedi"), after the loop
Exhausted == [kind |-> "raise", cause |-> "Whisper 5 denemede yanit vermedi"]

\* one iteration at loop index att, and the loop running out after it
LoopStep(att, resp) ==
    LET o == AttemptOutcome(resp) IN
    IF o.kind = "retry" /\ att + 1 >= MAX_ATTEMPTS THEN Exhausted ELSE o

\* except Exception as e: raise Exception(f"Transcription failed: {e}")
TranscriptionFailed(cause) == <<"Transcription failed", cause>>

\* ------------------------------------------------------ acoustic analysis
SAMPLE_RATE == 16000
SEG_SIZE == SAMPLE_RATE \div 2
MIN_RAW_BYTES == 200
MIN_SEG_LEN == 100

\* buffer shapes: n samples, all A, or +A/-A alternating, or silence with one
\* loud sample
ConstBuf(n, A) == [i \in 1..n |-> A]
AltBuf(n, A) == [i \in 1..n |-> IF i % 2 = 1 THEN A ELSE -A]
SpikeBuf(n, A) == [i \in 1..n |-> IF i = 1 THEN A ELSE 0]
\* the buffers the decoder yields to a pipeline run
BufLens == {0, 99, 100, 101}
BufAmps == {0, 3100}
Buffers == {ConstBuf(n, A) : n \in BufLens, A \in BufAmps}
           \cup {AltBuf(101, 3100), SpikeBuf(101, 25000)}
\* subprocess.run raises (no ffmpeg, timeout), or stdout holds the samples,
\* two bytes each, possibly with one odd byte at the end.  A decoder that
\* exits with an error leaves stdout empty.
Decoded(bufs) == {[ok |-> FALSE]}
                 \cup {[ok |-> TRUE, samples |-> b, odd |-> o] :
                          b \in bufs, o \in BOOLEAN}
DecoderOutcomes == Decoded(Buffers)

\* buffers longer than one 0.5-second window: the first window at amplitude
\* A, the rest at B
StepBuf(n, A, B) == [i \in 1..n |-> IF i <= SEG_SIZE THEN A ELSE B]
LongBuffers == {ConstBuf(SEG_SIZE + 100, 3),
                ConstBuf(SEG_SIZE + 101, 3),
                ConstBuf(SEG_SIZE + 101, -3),
                ConstBuf(SEG_SIZE + 101, 0),
                StepBuf(SEG_SIZE + 101, 3, 1),
                StepBuf(SEG_SIZE + 101, 0, 1)}

Abs(x) == IF x < 0 THEN -x ELSE x

\* sum(s*s for s in samples[lo..hi]), by halving the range
RECURSIVE SumSq(_, _, _)
SumSq(s, lo, hi) ==
    IF lo > hi THEN 0
    ELSE IF lo = hi THEN s[lo] * s[lo]
    ELSE LET mid == (lo + hi) \div 2 IN SumSq(s, lo, mid) + SumSq(s, mid + 1, hi)

\* max(abs(s) for s in samples[lo..hi])
RECURSIVE PeakIn(_, _, _)
PeakIn(s, lo, hi) ==
    IF lo > hi THEN 0
    ELSE IF lo = hi THEN Abs(s[lo])
    ELSE LET mid == (lo + hi) \div 2 IN Max(PeakIn(s, lo, mid), PeakIn(s, mid + 1, hi))
Peak(s) == PeakIn(s, 1, Len(s))

\* sum(1 for i in lo..hi if (samples[i] >= 0) != (samples[i-1] >= 0)),
\* with positions counted from 1
RECURSIVE CrossingsIn(_, _, _)
CrossingsIn(s, lo, hi) ==
    IF lo > hi THEN 0
    ELSE IF lo = hi THEN (IF (s[lo] >= 0) # (s[lo - 1] >= 0) THEN 1 ELSE 0)
    ELSE LET mid == (lo + hi) \div 2
         IN CrossingsIn(s, lo, mid) + CrossingsIn(s, mid + 1, hi)
ZeroCrossings(s) == CrossingsIn(s, 2, Len(s))

RECURSIVE ISqrtFrom(_, _, _)
ISqrtFrom(x, lo, hi) ==
    IF lo >= hi THEN lo
    ELSE LET mid == (lo + hi + 1) \div 2 IN
         IF mid * mid <= x THEN ISqrtFrom(x, mid, hi) ELSE ISqrtFrom(x, lo, mid - 1)
\* math.sqrt, rounded down to a whole amplitude unit
ISqrt(x) == ISqrtFrom(x, 0, 32768)

RECURSIVE SeqSum(_)
SeqSum(q) == IF q = <<>> THEN 0 ELSE Head(q) + SeqSum(Tail(q))

\* segments = [samples[i:i+seg_size] for i in range(0, n, seg_size)], as
\* index ranges
Segments(n) == [k \in 1..((n + SEG_SIZE - 1) \div SEG_SIZE) |->
                   [lo |-> (k - 1) * SEG_SIZE + 1, hi |-> Min(k * SEG_SIZE, n)]]
\* mutant: a window's energy is not divided by the window's length
Energies_Unnormalised(s) ==
    LET valid == SelectSeq(Segments(Len(s)),
                           LAMBDA g : g.hi - g.lo + 1 > MIN_SEG_LEN)
    IN [k \in 1..Len(valid) |-> ISqrt(SumSq(s, valid[k].lo, valid[k].hi))]

\* energies = [sqrt(sum(s*s for s in seg) / len(seg)) for seg in segments
\*             if len(seg) > 100]
Energies(s) ==
    LET valid == SelectSeq(Segments(Len(s)),
                           LAMBDA g : g.hi - g.lo + 1 > MIN_SEG_LEN)
    IN [k \in 1..Len(valid) |->
           ISqrt(SumSq(s, valid[k].lo, valid[k].hi)
                 \div (valid[k].hi - valid[k].lo + 1))]

\* mutant: the coefficient of variation is computed without the two guards
EnergyCvSq_Unguarded(s) ==
    LET e == Energies(s)
        k == Len(e)
        sum == SeqSum(e)
        sumsq == SeqSum([i \in 1..k |-> e[i] * e[i]])
    IN [num |-> k * sumsq - sum * sum, den |-> sum * sum]

\* energy_cv squared as the fraction num/den; 0/1 when there is no valid
\* segment or the mean is not positive
EnergyCvSq(s) ==
    LET e == Energies(s)
        k == Len(e)
        sum == SeqSum(e)
        sumsq == SeqSum([i \in 1..k |-> e[i] * e[i]])
    IN IF k = 0 \/ sum <= 0 THEN [num |-> 0, den |-> 1]
       ELSE [num |-> k * sumsq - sum * sum, den |-> sum * sum]

\* rms > t, that is sum(s*s)/n > t*t, without forming t*t*n
RmsAbove(ss, n, t) ==
    LET q == ss \div n IN q > t * t \/ (q = t * t /\ ss % n > 0)

\* mutant: a coefficient of variation equal to the threshold is above it
CvSqAbove_Inclusive(cv, a, b) ==
    cv.num >= a * (cv.den \div b) + (a * (cv.den % b)) \div b

\* energy_cv > sqrt(a/b), that is num/den > a/b, without forming a*den
CvSqAbove(cv, a, b) ==
    cv.num > a * (cv.den \div b) + (a * (cv.den % b)) \div b

\* the decision table of cues, in the code's order
Cues(s) ==
    LET n == Len(s)
        ss == SumSq(s, 1, n)
        cv == EnergyCvSq(s)
        zc == ZeroCrossings(s)
        loud == IF RmsAbove(ss, n, 3000) THEN "loud"
                ELSE IF RmsAbove(ss, n, 1500) THEN "normal"
                ELSE IF RmsAbove(ss, n, 500) THEN "quiet"
                ELSE "very_quiet"
        vary == IF CvSqAbove(cv, 9, 25) THEN "highly_variable"
                ELSE IF CvSqAbove(cv, 49, 400) THEN "varied"
                ELSE "monotone"
        pitch == IF 20 * zc > 3 * n THEN <<"high_freq">>
                 ELSE IF 20 * zc < n THEN <<"low_heavy">>
                 ELSE <<>>
        burst == IF Peak(s) > 20000 THEN <<"bursts">> ELSE <<>>
    IN <<loud, vary>> \o pitch \o burst

EnergyLevel(s) ==
    LET n == Len(s)
        ss == SumSq(s, 1, n)
    IN IF RmsAbove(ss, n, 2000) THEN "high"
       ELSE IF RmsAbove(ss, n, 800) THEN "medium"
       ELSE "low"

ANALYSIS_FAILED == [description |-> <<"Ses tonu analizi yapilamadi">>,
                    energy_level |-> "unknown"]
TOO_SHORT_AUDIO == [description |-> <<"Ses analizi yapilamadi">>,
                    energy_level |-> "unknown"]

\* the try block of analyze_audio_features, given what the decoder did.
\* rms is rounded down to a whole unit, energy_cv is its square as a
\* fraction, zcr is in thousandths.  A division by zero raises.
AudioFeaturesBody(dec) ==
    IF ~dec.ok THEN Exc("subprocess")
    ELSE IF 2 * Len(dec.samples) + (IF dec.odd THEN 1 ELSE 0) < MIN_RAW_BYTES
    THEN Ok(TOO_SHORT_AUDIO)
    ELSE IF dec.odd THEN Exc("struct.error")
    ELSE LET s == dec.samples
             n == Len(s)
             cv == EnergyCvSq(s)
         IN IF cv.den = 0 THEN Exc("ZeroDivisionError")
            ELSE Ok([description |-> Cues(s),
                     energy_level |-> EnergyLevel(s),
                     rms |-> ISqrt(SumSq(s, 1, n) \div n),
                     energy_cv |-> cv,
                     zcr |-> (1000 * ZeroCrossings(s)) \div n])

\* analyze_audio_features: except Exception: return the fallback
analyze_audio_features(dec) ==
    LET r == AudioFeaturesBody(dec) IN
    IF r.exc THEN Ok(ANALYSIS_FAILED) ELSE r

\* ------------------------------------------------- the reasoning transport
\* The text of a chat completion is a sequence of tokens: a fence (three
\* backquotes), white space, a word that is no JSON, or one JSON value.
FENCE == [t |-> "fence"]
WS == [t |-> "ws"]
Lit(w) == [t |-> "lit", w |-> w]
Val(v) == [t |-> "val", v |-> v]

\* a label string: a word, its letter case, and whether white space pads it
LabelStrings == {[word |-> "positive", case |-> "lower", pad |-> FALSE],
                 [word |-> "positive", case |-> "upper", pad |-> FALSE],
                 [word |-> "negative", case |-> "lower", pad |-> TRUE],
                 [word |-> "neutral", case |-> "lower", pad |-> FALSE],
                 [word |-> "angry", case |-> "lower", pad |-> FALSE]}
LabelFields == {[has |-> FALSE], [has |-> TRUE, str |-> FALSE]}
               \cup {[has |-> TRUE, str |-> TRUE, val |-> l] : l \in LabelStrings}
\* scores in tenths
ScoreValues == {-3, 17}
ScoreFields == {[has |-> FALSE], [has |-> TRUE, num |-> FALSE]}
               \cup {[has |-> TRUE, num |-> TRUE, val |-> v] : v \in ScoreValues}
JsonValues == {[obj |-> FALSE]}
              \cup {[obj |-> TRUE, label |-> l, score |-> c] :
                       l \in LabelFields, c \in ScoreFields}
Tags == {<<>>, <<Lit("json")>>, <<Lit("py")>>}
Plain(v) == <<Val(v)>>
Fenced(tag, v) == <<FENCE>> \o tag \o <<WS, Val(v), WS, FENCE>>
SentimentContents == {Plain(v) : v \in JsonValues}
                     \cup {Fenced(tag, v) : tag \in Tags, v \in JsonValues}
                     \cup {<<>>, <<Lit("py")>>, <<WS>>}
\* chat_completion raises, returns no content, or returns a text
ChatOutcomes(contents) == {[kind |-> "raise"], [kind |-> "null"]}
                          \cup {[kind |-> "text", content |-> c] : c \in contents}

RECURSIVE tlstrip(_)
tlstrip(r) == IF r = <<>> THEN r ELSE IF Head(r) = WS THEN tlstrip(Tail(r)) ELSE r
RECURSIVE trstrip(_)
trstrip(r) == IF r = <<>> THEN r
              ELSE IF r[Len(r)] = WS THEN trstrip(SubSeq(r, 1, Len(r) - 1)) ELSE r
tstrip(r) == trstrip(tlstrip(r))

HasFence(r) == \E i \in 1..Len(r) : r[i] = FENCE
\* the tokens before the first fence of r (all of r when it has none)
RECURSIVE UpToFence(_)
UpToFence(r) == IF r = <<>> \/ Head(r) = FENCE THEN <<>>
                ELSE <<Head(r)>> \o UpToFence(Tail(r))
\* raw.split(fence)[1], for a text that holds a fence
SplitSecond(r) ==
    LET first == Len(UpToFence(r))
    IN UpToFence(SubSeq(r, first + 2, Len(r)))

\* the text handed to json.loads
Unwrap(content) ==
    LET raw == tstrip(content) IN
    IF HasFence(raw)
    THEN LET inner == SplitSecond(raw)
             untagged == IF inner # <<>> /\ Head(inner) = Lit("json")
                         THEN Tail(inner) ELSE inner
         IN tstrip(untagged)
    ELSE raw

\* json.loads: the text must be exactly one JSON value
JsonLoads(raw) ==
    LET core == tstrip(raw) IN
    IF Len(core) = 1 /\ core[1].t = "val"
    THEN [ok |-> TRUE, v |-> core[1].v] ELSE [ok |-> FALSE]

\* mutant: the fallback carries a score of 0
SAFE_DEFAULT_ZeroScore == [label |-> "neutral", score |-> 0]
SAFE_DEFAULT == [label |-> "neutral", score |-> 5]
Enum == {"positive", "negative", "neutral"}
\* the string that spells an enum word exactly
Exact(w) == [word |-> w, case |-> "lower", pad |-> FALSE]

\* mutant: the score is not clamped
Normalize_NoClamp(parsed) ==
    IF ~parsed.obj THEN Exc("AttributeError")
    ELSE IF parsed.label.has /\ ~parsed.label.str THEN Exc("AttributeError")
    ELSE IF parsed.score.has /\ ~parsed.score.num THEN Exc("TypeError")
    ELSE LET l == IF parsed.label.has
                  THEN [parsed.label.val EXCEPT !.case = "lower", !.pad = FALSE]
                  ELSE Exact("neutral")
             c == IF parsed.score.has THEN parsed.score.val ELSE 5
         IN Ok([label |-> IF \E w \in Enum : l = Exact(w) THEN l.word ELSE "neutral",
                score |-> c])

\* mutant: the label is compared as the service spelled it
Normalize_AsSpelled(parsed) ==
    IF ~parsed.obj THEN Exc("AttributeError")
    ELSE IF parsed.label.has /\ ~parsed.label.str THEN Exc("AttributeError")
    ELSE IF parsed.score.has /\ ~parsed.score.num THEN Exc("TypeError")
    ELSE LET l == IF parsed.label.has THEN parsed.label.val ELSE Exact("neutral")
             c == IF parsed.score.has THEN parsed.score.val ELSE 5
         IN Ok([label |-> IF \E w \in Enum : l = Exact(w) THEN l.word ELSE "neutral",
                score |-> Max(0, Min(10, c))])

\* label = parsed.get("label", "neutral").lower().strip();
\* score = float(parsed.get("score", 0.5)); validate; clamp
Normalize(parsed) ==
    IF ~parsed.obj THEN Exc("AttributeError")
    ELSE IF parsed.label.has /\ ~parsed.label.str THEN Exc("AttributeError")
    ELSE IF parsed.score.has /\ ~parsed.score.num THEN Exc("TypeError")
    ELSE LET l == IF parsed.label.has
                  THEN [parsed.label.val EXCEPT !.case = "lower", !.pad = FALSE]
                  ELSE Exact("neutral")
             c == IF parsed.score.has THEN parsed.score.val ELSE 5
         IN Ok([label |-> IF \E w \in Enum : l = Exact(w) THEN l.word ELSE "neutral",
                score |-> Max(0, Min(10, c))])

\* the user message of the sentiment request: the voice-tone section is
\* there exactly when voice_cues is not empty.  (The text is cut to 400
\* words; the model's texts are shorter.)
SentimentRequest(text, voice_cues) ==
    [text |-> text, voice_section |-> voice_cues # <<>>, cues |-> voice_cues]

\* the try block of analyze_sentiment, given what chat_completion did
SentimentBody(text, voice_cues, resp) ==
    IF resp.kind = "raise" THEN Exc("chat_completion")
    ELSE IF resp.kind = "null" THEN Exc("AttributeError")
    ELSE LET p == JsonLoads(Unwrap(resp.content)) IN
         IF p.ok THEN Normalize(p.v) ELSE Exc("JSONDecodeError")

\* mutant: the handler is gone and the exception reaches the caller
analyze_sentiment_Propagates(text, voice_cues, resp) ==
    SentimentBody(text, voice_cues, resp)

\* analyze_sentiment: except Exception: return the safe default
analyze_sentiment(text, voice_cues, resp) ==
    LET r == SentimentBody(text, voice_cues, resp) IN
    IF r.exc THEN Ok(SAFE_DEFAULT) ELSE r

\* ------------------------------------------------------------- feedback
\* transcription[:500]
FEEDBACK_TEXT_LEN == 500

\* sentiment_tr: the tone phrase of the request
TonePhrase(sentiment) ==
    IF sentiment = "positive" THEN "mutlu ve pozitif"
    ELSE IF sentiment = "negative" THEN "uzgun veya sikintili"
    ELSE IF sentiment = "neutral" THEN "sakin ve dusunceli"
    ELSE "dusunceli"

Fallback(sentiment) ==
    IF sentiment = "positive" THEN <<"Harika! ...">>
    ELSE IF sentiment = "negative" THEN <<"Anliyorum, ...">>
    ELSE <<"Dusuncelerinizi paylastiginiz icin tesekkurler. ...">>

\* the user message of the feedback request
FeedbackRequest(transcription, sentiment) ==
    [text |-> SubSeq(transcription, 1, Min(Len(transcription), FEEDBACK_TEXT_LEN)),
     tone |-> TonePhrase(sentiment)]

\* the try block of generate_feedback, given what chat_completion did
FeedbackBody(transcription, sentiment, resp) ==
    IF resp.kind = "raise" THEN Exc("chat_completion")
    ELSE IF resp.kind = "null" THEN Exc("AttributeError")
    ELSE Ok(strip(resp.content))

\* mutant: the handler is gone and the exception reaches the caller
generate_feedback_Propagates(transcription, sentiment, resp) ==
    FeedbackBody(transcription, sentiment, resp)

\* generate_feedback: except Exception: return the canned message
generate_feedback(transcription, sentiment, resp) ==
    LET r == FeedbackBody(transcription, sentiment, resp) IN
    IF r.exc THEN Ok(Fallback(sentiment)) ELSE r

\* --------------------------------------------------------- the pipeline
VARIABLES
    pc,                   \* where process_audio_full is: "idle", "transcribe",
                          \* "acoustic", "sentiment", "feedback", "done"
    attempt,              \* iterations of the retry loop completed
    requests,             \* requests.post calls made
    n503,                 \* responses with status 503 received
    nSleeps,              \* time.sleep calls that slept
    lastSleep,            \* length of the latest sleep
    lastStatus,           \* status of the latest response (FAULT: none came)
    lastHint,             \* estimated_time of the latest response, if a 503
    lastOkBody,           \* shape of the latest body that came with a success
                          \* status ("none": the latest response had none)
    rawText,              \* text field of the response that was returned
    transcription_result, \* what transcribe_audio returned
    audio_features,       \* what analyze_audio_features returned
    sentiment_result,     \* what analyze_sentiment returned
    ai_feedback,          \* what generate_feedback returned
    outcome,              \* what process_audio_full handed to its caller
    calls,                \* how often each stage was invoked
    stageArgs,            \* the arguments process_audio_full gave to
                          \* analyze_sentiment and to generate_feedback
    log,                  \* the stages' calls and returns, in order
    call,                 \* a stage called on its own: the method, its
                          \* arguments and what its service or decoder does
    sent,                 \* the request that call handed to chat_completion
    ret,                  \* what that call returned or raised
    db,                   \* table diary_entries: id -> audio_file_path
    disk,                 \* the files in UPLOAD_DIR
    minted,               \* file names generated so far (uuid4 never repeats)
    reply,                \* the latest HTTP request and its answer
    deleted,              \* ids for which delete_entry answered success
    service,              \* the AIService instance: api_token, headers,
                          \* hf_client
    runs                  \* the locals of each concurrent process_audio_full
                          \* call, with the inputs it has been given

vars == <<pc, attempt, requests, n503, nSleeps, lastSleep, lastStatus, lastHint,
          lastOkBody, rawText, transcription_result, audio_features,
          sentiment_result, ai_feedback, outcome, calls, stageArgs, log,
          call, sent, ret, db, disk, minted, reply, deleted, service, runs>>

Stages == {"transcribe", "acoustic", "sentiment", "feedback"}

Call(stage) == <<"call", stage>>
Ret(stage) == <<"return", stage>>
Raised(stage) == <<"raise", stage>>

\* lastStatus when requests.post raised, and before the first request
FAULT == 0 - 1
NO_HINT == [has |-> FALSE]

retryVars == <<attempt, requests, n503, nSleeps, lastSleep, lastStatus, lastHint,
               lastOkBody, rawText>>
stageVars == <<audio_features, sentiment_result, ai_feedback>>
pipelineVars == <<pc, retryVars, transcription_result, stageVars, outcome, calls,
                  stageArgs, log>>
callVars == <<call, sent, ret>>
apiVars == <<db, disk, minted, reply, deleted>>
concVars == <<service, runs>>
Runs == 1..NumRuns

\* AIService.__init__: the token, the authorization header made from it, the
\* client made from it
NewService ==
    [api_token |-> "hf_token",
     headers |-> {<<"Authorization", "hf_token">>},
     hf_client |-> [token |-> "hf_token"]]

\* the frame of a process_audio_full call that has not started
NewRun ==
    [pc |-> "idle", attempt |-> 0, headers |-> {},
     transcription_result |-> NONE, audio_features |-> NONE,
     sentiment_result |-> NONE, outcome |-> NONE, seen |-> <<>>]

\* the instance is constructed and no call on it has started
Constructed ==
    /\ service = NewService
    /\ runs = [r \in Runs |-> NewRun]

\* the server has started: init_db() on an empty database, an empty
\* upload directory, no request yet
NoRequest ==
    /\ db = << >>
    /\ disk = {}
    /\ minted = 0
    /\ reply = NONE
    /\ deleted = {}

\* no process_audio_full call has been made
Idle ==
    /\ pc = "idle"
    /\ attempt = 0
    /\ requests = 0
    /\ n503 = 0
    /\ nSleeps = 0
    /\ lastSleep = 0
    /\ lastStatus = 0
    /\ lastHint = NO_HINT
    /\ lastOkBody = "none"
    /\ rawText = <<>>
    /\ transcription_result = NONE
    /\ audio_features = NONE
    /\ sentiment_result = NONE
    /\ ai_feedback = NONE
    /\ outcome = NONE
    /\ calls = [s \in Stages |-> 0]
    /\ stageArgs = [sentiment |-> NONE, feedback |-> NONE]
    /\ log = <<>>

Init ==
    /\ Idle
    /\ call = NONE
    /\ sent = NONE
    /\ ret = NONE
    /\ NoRequest
    /\ Constructed

\* the result of the short circuit
UNINTELLIGIBLE ==
    [transcription_text |-> <<"Ses kaydi anlasilamadi.">>,
     sentiment_label |-> "neutral",
     sentiment_score |-> 5,
     ai_feedback |-> <<"Ses kalitesi dusuk oldugu icin analiz yapilamadi. Lutfen daha net kayit yapin.">>,
     language |-> "unknown"]

\* mutant: the pipeline absorbs the failure and answers with a default
PipelineFailure_Absorbed(e) ==
    [kind |-> "return",
     value |-> [transcription_text |-> <<>>, sentiment_label |-> "neutral",
                sentiment_score |-> 5, ai_feedback |-> <<>>,
                language |-> "unknown"]]

\* except Exception as e: raise Exception(f"AI processing failed: {e}")
PipelineFailure(e) == [kind |-> "raise", error |-> <<"AI processing failed", e>>]

\* mutant: a transcript of exactly the minimum length is cut short too
TooShort_Inclusive(text) == text = <<>> \/ Len(strip(text)) <= MIN_TRANSCRIPT_LEN

\* if not transcription_text or len(transcription_text.strip()) < 5
TooShort(text) == text = <<>> \/ Len(strip(text)) < MIN_TRANSCRIPT_LEN

\* mutant: the result is returned without the feedback
FullResult_Partial(tr, sr, fb) ==
    [kind |-> "return",
     value |-> [transcription_text |-> tr.text,
                sentiment_label |-> sr.label,
                sentiment_score |-> sr.score,
                language |-> tr.language]]

\* return {...}, the complete result
FullResult(tr, sr, fb) ==
    [kind |-> "return",
     value |-> [transcription_text |-> tr.text,
                sentiment_label |-> sr.label,
                sentiment_score |-> sr.score,
                ai_feedback |-> fb,
                language |-> tr.language]]

\* mutant: a degraded analysis hands no cues on
VoiceCues_NoneWhenDegraded(features) ==
    IF features.energy_level = "unknown" THEN <<>> ELSE features.description

\* voice_cues = audio_features.get("description", "")
VoiceCues(features) ==
    IF "description" \in DOMAIN features THEN features.description ELSE <<>>

\* analyze_sentiment(transcription_text, voice_cues), with the user message
\* the call builds from them
SentimentArgs(tr, features) ==
    [text |-> tr.text,
     voice_cues |-> VoiceCues(features),
     request |-> SentimentRequest(tr.text, VoiceCues(features))]

\* mutant: the feedback is asked for the neutral label
FeedbackArgs_NeutralLabel(tr, sr) ==
    [transcription |-> tr.text, sentiment |-> "neutral"]

\* generate_feedback(transcription_text, sentiment_result["label"])
FeedbackArgs(tr, sr) == [transcription |-> tr.text, sentiment |-> sr.label]

\* process_audio_full is called; transcribe_audio opens and reads the file
Start(readable) ==
    /\ pc = "idle"
    /\ calls' = [calls EXCEPT !["transcribe"] = @ + 1]
    /\ IF readable
       THEN /\ pc' = "transcribe"
            /\ log' = log \o <<Call("transcribe")>>
            /\ outcome' = outcome
       ELSE /\ pc' = "done"
            /\ log' = log \o <<Call("transcribe"), Raised("transcribe")>>
            /\ outcome' = PipelineFailure(TranscriptionFailed("OSError"))
    /\ UNCHANGED <<retryVars, transcription_result, stageVars, stageArgs, callVars, apiVars, concVars>>

\* one iteration of for attempt in range(5), and what follows it when it is
\* the last: the return, the HTTPError, or the loop running out
Attempt(resp) ==
    /\ pc = "transcribe"
    /\ attempt < MAX_ATTEMPTS
    /\ LET o == AttemptOutcome(resp)
           end == LoopStep(attempt, resp)
       IN
       /\ attempt' = attempt + 1
       /\ requests' = requests + 1
       /\ lastStatus' = IF resp.kind = "http" THEN resp.status ELSE FAULT
       /\ lastHint' = IF resp.kind = "http" /\ resp.status = 503
                         /\ resp.body.form = "object"
                      THEN resp.body.estimated_time ELSE NO_HINT
       /\ n503' = IF resp.kind = "http" /\ resp.status = 503 THEN n503 + 1 ELSE n503
       /\ lastOkBody' = BodyShape(resp)
       /\ nSleeps' = IF Sleeps(attempt, o) THEN nSleeps + 1 ELSE nSleeps
       /\ lastSleep' = IF Sleeps(attempt, o) THEN o.sleep ELSE lastSleep
       /\ rawText' = IF o.kind = "return" /\ BodyShape(resp) = "text"
                     THEN resp.body.text.val ELSE rawText
       /\ CASE end.kind = "return" ->
                 /\ transcription_result' = [text |-> end.text, language |-> end.language]
                 /\ IF TooShort(end.text)
                    THEN /\ pc' = "done"
                         /\ outcome' = [kind |-> "return", value |-> UNINTELLIGIBLE]
                    ELSE /\ pc' = "acoustic"
                         /\ outcome' = outcome
                 /\ log' = log \o <<Ret("transcribe")>>
            [] end.kind = "raise" ->
                 /\ pc' = "done"
                 /\ outcome' = PipelineFailure(TranscriptionFailed(end.cause))
                 /\ log' = log \o <<Raised("transcribe")>>
                 /\ UNCHANGED transcription_result
            [] end.kind = "retry" ->
                 /\ UNCHANGED <<pc, outcome, log, transcription_result>>
    /\ UNCHANGED <<stageVars, calls, stageArgs, callVars, apiVars, concVars>>

\* audio_features = self.analyze_audio_features(audio_path)
AnalyzeAudio(dec) ==
    /\ pc = "acoustic"
    /\ calls' = [calls EXCEPT !["acoustic"] = @ + 1]
    /\ LET r == analyze_audio_features(dec) IN
       IF r.exc
       THEN /\ pc' = "done"
            /\ outcome' = PipelineFailure(r.e)
            /\ log' = log \o <<Call("acoustic"), Raised("acoustic")>>
            /\ UNCHANGED audio_features
       ELSE /\ pc' = "sentiment"
            /\ audio_features' = r.v
            /\ log' = log \o <<Call("acoustic"), Ret("acoustic")>>
            /\ UNCHANGED outcome
    /\ UNCHANGED <<retryVars, transcription_result, sentiment_result, ai_feedback,
                   stageArgs, callVars, apiVars, concVars>>

\* voice_cues = audio_features.get("description", "");
\* sentiment_result = self.analyze_sentiment(transcription_text, voice_cues)
AnalyzeSentiment(resp) ==
    /\ pc = "sentiment"
    /\ calls' = [calls EXCEPT !["sentiment"] = @ + 1]
    /\ stageArgs' = [stageArgs EXCEPT !.sentiment =
                        SentimentArgs(transcription_result, audio_features)]
    /\ LET a == SentimentArgs(transcription_result, audio_features)
           r == analyze_sentiment(a.text, a.voice_cues, resp) IN
       IF r.exc
       THEN /\ pc' = "done"
            /\ outcome' = PipelineFailure(r.e)
            /\ log' = log \o <<Call("sentiment"), Raised("sentiment")>>
            /\ UNCHANGED sentiment_result
       ELSE /\ pc' = "feedback"
            /\ sentiment_result' = r.v
            /\ log' = log \o <<Call("sentiment"), Ret("sentiment")>>
            /\ UNCHANGED outcome
    /\ UNCHANGED <<retryVars, transcription_result, audio_features, ai_feedback,
                   callVars, apiVars, concVars>>

FeedbackContents == {<<>>, <<"a">>, <<" ", "a", " ">>}

\* ai_feedback = self.generate_feedback(...); return {...}
GenerateFeedback(resp) ==
    /\ pc = "feedback"
    /\ calls' = [calls EXCEPT !["feedback"] = @ + 1]
    /\ stageArgs' = [stageArgs EXCEPT !.feedback =
                        FeedbackArgs(transcription_result, sentiment_result)]
    /\ LET a == FeedbackArgs(transcription_result, sentiment_result)
           r == generate_feedback(a.transcription, a.sentiment, resp) IN
       IF r.exc
       THEN /\ outcome' = PipelineFailure(r.e)
            /\ log' = log \o <<Call("feedback"), Raised("feedback")>>
            /\ UNCHANGED ai_feedback
       ELSE /\ ai_feedback' = r.v
            /\ outcome' = FullResult(transcription_result, sentiment_result, r.v)
            /\ log' = log \o <<Call("feedback"), Ret("feedback")>>
    /\ pc' = "done"
    /\ UNCHANGED <<retryVars, transcription_result, audio_features, sentiment_result,
                   callVars, apiVars, concVars>>

Next ==
    \/ \E readable \in BOOLEAN : Start(readable)
    \/ \E resp \in WhisperResponses : Attempt(resp)
    \/ \E dec \in DecoderOutcomes : AnalyzeAudio(dec)
    \/ \E resp \in ChatOutcomes(SentimentContents) : AnalyzeSentiment(resp)
    \/ \E resp \in ChatOutcomes(FeedbackContents) : GenerateFeedback(resp)

Spec == Init /\ [][Next]_vars

\* every remote call and the decoder eventually return or time out
FairSpec == Spec /\ WF_vars(Next)

\* ------------------------------------------- the stages called on their own
\* buffers whose features sit on and next to the thresholds of the cue table:
\* n samples whose sign changes c times, then stays
CrossBuf(n, c, A) ==
    [i \in 1..n |-> IF (IF i <= c + 1 THEN i ELSE c + 1) % 2 = 1 THEN A ELSE -A]
EdgeBuffers == {ConstBuf(101, 3000), ConstBuf(101, 1500), ConstBuf(101, 500),
                ConstBuf(101, 501), SpikeBuf(101, 20000),
                CrossBuf(100, 4, 3100), CrossBuf(100, 5, 3100),
                CrossBuf(100, 15, 3100), CrossBuf(100, 16, 3100),
                StepBuf(SEG_SIZE + 101, 4, 1), StepBuf(SEG_SIZE + 101, 27, 13),
                StepBuf(SEG_SIZE + 101, 28, 13)}
\* analyze_sentiment, generate_feedback and analyze_audio_features are public
\* methods: each is applied once to arguments drawn from the sets below.
CallTexts == {Body(MIN_TRANSCRIPT_LEN, FALSE)}
CallCues == {<<>>, <<"loud", "monotone">>}
CallLabels == {"positive", "negative", "neutral", "angry"}
SentimentCalls ==
    {[fn |-> "analyze_sentiment", text |-> t, voice_cues |-> c, resp |-> r] :
        t \in CallTexts, c \in CallCues, r \in ChatOutcomes(SentimentContents)}
FeedbackCalls ==
    {[fn |-> "generate_feedback", transcription |-> t, sentiment |-> l, resp |-> r] :
        t \in CallTexts, l \in CallLabels, r \in ChatOutcomes(FeedbackContents)}
AudioCalls ==
    {[fn |-> "analyze_audio_features", dec |-> d] :
        d \in Decoded(Buffers \cup LongBuffers \cup EdgeBuffers)}

CallInit ==
    /\ Idle
    /\ call \in SentimentCalls \cup FeedbackCalls \cup AudioCalls
    /\ sent = NONE
    /\ ret = NONE
    /\ NoRequest
    /\ Constructed

CallAnalyzeSentiment ==
    /\ call.fn = "analyze_sentiment"
    /\ ret = NONE
    /\ sent' = SentimentRequest(call.text, call.voice_cues)
    /\ ret' = analyze_sentiment(call.text, call.voice_cues, call.resp)
    /\ UNCHANGED <<call, pipelineVars, apiVars, concVars>>

CallGenerateFeedback ==
    /\ call.fn = "generate_feedback"
    /\ ret = NONE
    /\ sent' = FeedbackRequest(call.transcription, call.sentiment)
    /\ ret' = generate_feedback(call.transcription, call.sentiment, call.resp)
    /\ UNCHANGED <<call, pipelineVars, apiVars, concVars>>

CallAnalyzeAudioFeatures ==
    /\ call.fn = "analyze_audio_features"
    /\ ret = NONE
    /\ ret' = analyze_audio_features(call.dec)
    /\ UNCHANGED <<call, sent, pipelineVars, apiVars, concVars>>

CallNext ==
    \/ CallAnalyzeSentiment
    \/ CallGenerateFeedback
    \/ CallAnalyzeAudioFeatures

CallSpec == CallInit /\ [][CallNext]_vars

\* ------------------------------------------------------- the HTTP endpoints
\* backend/main.py: upload_audio, get_entries, get_entry, delete_entry and
\* get_audio over the table diary_entries and the upload directory.  Each
\* request runs to its answer.
MAX_FILE_SIZE == 52428800
ALLOWED_EXTENSIONS == {".m4a", ".mp3", ".wav", ".aac"}

\* what a client uploads: the extension of the file name, the length of the
\* contents
Extensions == {".m4a", ".M4A", ".txt"}
Sizes == {MAX_FILE_SIZE, MAX_FILE_SIZE + 1}
\* file.file.read(), open(file_path, "wb") and f.write(contents): all work,
\* or one of them raises; a write that raises leaves the file it opened
IoOutcomes == {"ok", "read_fails", "open_fails", "write_fails"}
\* session.commit() and session.refresh(new_entry): both work, the commit
\* raises and the transaction is rolled back, or the refresh raises after the
\* commit
InsertOutcomes == {"ok", "commit_fails", "refresh_fails"}
Ids == 1..(MaxUploads + 1)

\* str.lower() on the extension
Lower(ext) == IF ext = ".M4A" THEN ".m4a" ELSE ext

\* f"{uuid.uuid4()}{file_ext}" in UPLOAD_DIR: the k-th name generated
FilePath(k, ext) == [uuid |-> k, ext |-> ext]

\* the id SQLite gives a new row of a table with an INTEGER primary key: one
\* more than the largest id in the table
NextId(d) ==
    IF DOMAIN d = {} THEN 1
    ELSE (CHOOSE i \in DOMAIN d : \A j \in DOMAIN d : j <= i) + 1

\* session.add(new_entry); session.commit()
InsertRow(d, path) == (NextId(d) :> path) @@ d

\* mutant: the delete empties the table
DeleteRow_All(d, id) == << >>

\* session.delete(entry); session.commit()
DeleteRow(d, id) == [i \in DOMAIN d \ {id} |-> d[i]]

\* the try block that saves the file (lines 74-85): what it raises, or the
\* files after it
SaveFile(files, path, size, io) ==
    IF io = "read_fails" THEN Exc([http |-> FALSE, files |-> files])
    ELSE IF size > MAX_FILE_SIZE THEN Exc([http |-> TRUE, status |-> 400, files |-> files])
    ELSE IF io = "open_fails" THEN Exc([http |-> FALSE, files |-> files])
    ELSE IF io = "write_fails" THEN Exc([http |-> FALSE, files |-> files \cup {path}])
    ELSE Ok(files \cup {path})

\* upload_audio: the answer, and the table and the directory after it
UploadOutcome(d, files, k, ext, size, io, ins) ==
    LET file_ext == Lower(ext)
        path == FilePath(k, file_ext)
        saved == SaveFile(files, path, size, io)
    IN IF file_ext \notin ALLOWED_EXTENSIONS
       THEN [status |-> 400, db |-> d, disk |-> files, named |-> FALSE]
       \* except Exception: HTTPException(status_code=500, ...); the
       \* HTTPException of the size check is an Exception too
       ELSE IF saved.exc
       THEN [status |-> 500, db |-> d, disk |-> saved.e.files, named |-> TRUE]
       ELSE IF ins = "commit_fails"
       THEN [status |-> 500, db |-> d, disk |-> saved.v \ {path}, named |-> TRUE]
       ELSE IF ins = "refresh_fails"
       THEN [status |-> 500, db |-> InsertRow(d, path), disk |-> saved.v \ {path},
             named |-> TRUE]
       ELSE [status |-> 200, db |-> InsertRow(d, path), disk |-> saved.v,
             named |-> TRUE]

\* get_entry
GetEntryStatus(d, id, query_ok) ==
    IF ~query_ok THEN 500 ELSE IF id \notin DOMAIN d THEN 404 ELSE 200

\* get_audio
GetAudioStatus(d, files, id, query_ok) ==
    IF ~query_ok THEN 500
    ELSE IF id \notin DOMAIN d THEN 404
    ELSE IF d[id] \notin files THEN 404
    ELSE 200

\* get_entries with the default skip and limit: the ids it lists
Listed(d) == DOMAIN d

\* delete_entry: the answer, and the table and the directory after it
DeleteOutcome(d, files, id, query_ok, remove_ok, commit_ok) ==
    IF ~query_ok THEN [status |-> 500, db |-> d, disk |-> files]
    ELSE IF id \notin DOMAIN d THEN [status |-> 404, db |-> d, disk |-> files]
    ELSE IF d[id] \in files /\ ~remove_ok THEN [status |-> 500, db |-> d, disk |-> files]
    ELSE IF ~commit_ok THEN [status |-> 500, db |-> d, disk |-> files \ {d[id]}]
    ELSE [status |-> 200, db |-> DeleteRow(d, id), disk |-> files \ {d[id]}]

UploadAudio(ext, size, io, ins) ==
    LET o == UploadOutcome(db, disk, minted + 1, ext, size, io, ins) IN
    /\ o.named => minted < MaxUploads
    /\ db' = o.db
    /\ disk' = o.disk
    /\ minted' = IF o.named THEN minted + 1 ELSE minted
    /\ reply' = [op |-> "upload_audio", ext |-> ext, size |-> size, status |-> o.status]
    /\ UNCHANGED <<deleted, pipelineVars, callVars, concVars>>

GetEntries(query_ok) ==
    /\ reply' = IF query_ok
                THEN [op |-> "get_entries", status |-> 200, entries |-> Listed(db)]
                ELSE [op |-> "get_entries", status |-> 500]
    /\ UNCHANGED <<db, disk, minted, deleted, pipelineVars, callVars, concVars>>

GetEntry(id, query_ok) ==
    /\ reply' = [op |-> "get_entry", id |-> id,
                 status |-> GetEntryStatus(db, id, query_ok)]
    /\ UNCHANGED <<db, disk, minted, deleted, pipelineVars, callVars, concVars>>

GetAudio(id, query_ok) ==
    /\ reply' = [op |-> "get_audio", id |-> id,
                 status |-> GetAudioStatus(db, disk, id, query_ok)]
    /\ UNCHANGED <<db, disk, minted, deleted, pipelineVars, callVars, concVars>>

DeleteEntry(id, query_ok, remove_ok, commit_ok) ==
    LET o == DeleteOutcome(db, disk, id, query_ok, remove_ok, commit_ok) IN
    /\ db' = o.db
    /\ disk' = o.disk
    /\ reply' = [op |-> "delete_entry", id |-> id, status |-> o.status]
    /\ deleted' = IF o.status = 200 THEN deleted \cup {id} ELSE deleted
    /\ UNCHANGED <<minted, pipelineVars, callVars, concVars>>

ApiInit ==
    /\ Idle
    /\ call = NONE
    /\ sent = NONE
    /\ ret = NONE
    /\ NoRequest
    /\ Constructed

ApiNext ==
    \/ \E ext \in Extensions, size \in Sizes, io \in IoOutcomes,
          ins \in InsertOutcomes : UploadAudio(ext, size, io, ins)
    \/ \E ok \in BOOLEAN : GetEntries(ok)
    \/ \E id \in Ids, ok \in BOOLEAN : GetEntry(id, ok)
    \/ \E id \in Ids, ok \in BOOLEAN : GetAudio(id, ok)
    \/ \E id \in Ids, q \in BOOLEAN, rm \in BOOLEAN, cm \in BOOLEAN :
          DeleteEntry(id, q, rm, cm)

ApiSpec == ApiInit /\ [][ApiNext]_vars

\* ------------------------------------------------------- concurrent calls
\* Several process_audio_full calls run at the same time on the one instance
\* get_ai_service returns.  A call's locals live in its own frame; the
\* instance is what the calls share.  A step is one loop iteration of
\* transcribe_audio or one later stage.
ConcResponses ==
    {[kind |-> "fault"],
     [kind |-> "http", status |-> 401, body |-> [form |-> "notjson"]]}
    \cup {[kind |-> "http", status |-> 200,
           body |-> [form |-> "object", estimated_time |-> NO_HINT,
                     text |-> [has |-> TRUE, str |-> TRUE, val |-> t]]] :
             t \in {<<"a">>, Body(MIN_TRANSCRIPT_LEN, FALSE)}}
ConcDecoders == Decoded({ConstBuf(101, 3100)})
ConcSentiments ==
    {[kind |-> "text",
      content |-> Plain([obj |-> TRUE,
                         label |-> [has |-> TRUE, str |-> TRUE,
                                    val |-> Exact("positive")],
                         score |-> [has |-> TRUE, num |-> TRUE, val |-> 17]])]}
ConcFeedbacks == {[kind |-> "text", content |-> <<"a">>]}

\* mutant: the content type is set on the instance's own headers
WhisperHeaders_InPlace(svc) ==
    LET h == svc.headers \cup {<<"Content-Type", "audio/m4a">>}
    IN [request |-> h, service |-> [svc EXCEPT !.headers = h]]

\* headers = {**self.headers, "Content-Type": "audio/m4a"}: a new dict; the
\* instance is left as it is
WhisperHeaders(svc) ==
    [request |-> svc.headers \cup {<<"Content-Type", "audio/m4a">>},
     service |-> svc]

RunStart(r) ==
    /\ runs[r].pc = "idle"
    /\ runs' = [runs EXCEPT ![r].pc = "transcribe"]
    /\ UNCHANGED <<service, pipelineVars, callVars, apiVars>>

RunAttempt(r, resp) ==
    /\ runs[r].pc = "transcribe"
    /\ runs[r].attempt < MAX_ATTEMPTS
    /\ LET h == WhisperHeaders(service)
           end == LoopStep(runs[r].attempt, resp)
           me == [runs[r] EXCEPT !.attempt = @ + 1,
                                 !.headers = h.request,
                                 !.seen = Append(@, resp)]
       IN /\ service' = h.service
          /\ runs' = [runs EXCEPT ![r] =
                CASE end.kind = "return" ->
                       LET tr == [text |-> end.text, language |-> end.language] IN
                       IF TooShort(end.text)
                       THEN [me EXCEPT !.transcription_result = tr,
                                       !.pc = "done",
                                       !.outcome = [kind |-> "return",
                                                    value |-> UNINTELLIGIBLE]]
                       ELSE [me EXCEPT !.transcription_result = tr,
                                       !.pc = "acoustic"]
                  [] end.kind = "raise" ->
                       [me EXCEPT !.pc = "done",
                                  !.outcome =
                                      PipelineFailure(TranscriptionFailed(end.cause))]
                  [] end.kind = "retry" -> me]
    /\ UNCHANGED <<pipelineVars, callVars, apiVars>>

RunAnalyzeAudio(r, dec) ==
    /\ runs[r].pc = "acoustic"
    /\ runs' = [runs EXCEPT ![r].audio_features = analyze_audio_features(dec).v,
                            ![r].pc = "sentiment",
                            ![r].seen = Append(@, dec)]
    /\ UNCHANGED <<service, pipelineVars, callVars, apiVars>>

RunAnalyzeSentiment(r, resp) ==
    /\ runs[r].pc = "sentiment"
    /\ LET a == SentimentArgs(runs[r].transcription_result, runs[r].audio_features)
       IN runs' = [runs EXCEPT
                     ![r].sentiment_result =
                         analyze_sentiment(a.text, a.voice_cues, resp).v,
                     ![r].pc = "feedback",
                     ![r].seen = Append(@, resp)]
    /\ UNCHANGED <<service, pipelineVars, callVars, apiVars>>

RunGenerateFeedback(r, resp) ==
    /\ runs[r].pc = "feedback"
    /\ LET a == FeedbackArgs(runs[r].transcription_result, runs[r].sentiment_result)
           fb == generate_feedback(a.transcription, a.sentiment, resp).v
       IN runs' = [runs EXCEPT
                     ![r].outcome = FullResult(runs[r].transcription_result,
                                               runs[r].sentiment_result, fb),
                     ![r].pc = "done",
                     ![r].seen = Append(@, resp)]
    /\ UNCHANGED <<service, pipelineVars, callVars, apiVars>>

ConcInit ==
    /\ Idle
    /\ call = NONE
    /\ sent = NONE
    /\ ret = NONE
    /\ NoRequest
    /\ Constructed

ConcNext ==
    \/ \E r \in Runs : RunStart(r)
    \/ \E r \in Runs, resp \in ConcResponses : RunAttempt(r, resp)
    \/ \E r \in Runs, dec \in ConcDecoders : RunAnalyzeAudio(r, dec)
    \/ \E r \in Runs, resp \in ConcSentiments : RunAnalyzeSentiment(r, resp)
    \/ \E r \in Runs, resp \in ConcFeedbacks : RunGenerateFeedback(r, resp)

ConcSpec == ConcInit /\ [][ConcNext]_vars

\* ================================================================ claims
IsPrefix(a, b) == Len(a) <= Len(b) /\ SubSeq(b, 1, Len(a)) = a

\* t is raw without the spaces at its two ends
IsTrimOf(t, raw) ==
    /\ t = <<>> \/ (t[1] # " " /\ t[Len(t)] # " ")
    /\ \E i \in 0..Len(raw) :
          /\ i + Len(t) <= Len(raw)
          /\ SubSeq(raw, i + 1, i + Len(t)) = t
          /\ \A k \in (1..i) \cup ((i + Len(t) + 1)..Len(raw)) : raw[k] = " "

\* the length of raw between its first and its last character that is no space
TrimLen(raw) ==
    LET ns == {i \in 1..Len(raw) : raw[i] # " "} IN
    IF ns = {} THEN 0
    ELSE (CHOOSE i \in ns : \A j \in ns : j <= i)
         - (CHOOSE i \in ns : \A j \in ns : i <= j) + 1

Transcribed == transcription_result # NONE
HardStatus == lastStatus >= 400 /\ lastStatus # 503
RanOut == requests = 5 /\ lastStatus \in {FAULT, 503}
Downstream == {"acoustic", "sentiment", "feedback"}

\* C1: a transcribe_audio call sends at most 5 requests, and every request,
\* whatever it ended in, consumed exactly one attempt.
C1_RequestBudget ==
    /\ requests <= 5
    /\ attempt = requests
    /\ n503 <= requests

C1_Witness == requests = 5 /\ n503 = 2 /\ lastStatus = FAULT

\* C2: after a response with an HTTP error status other than 503 the call has
\* raised a transcription failure, that attempt slept not at all, and no
\* request and no sleep follow.
C2_HardFailureImmediate ==
    /\ [](HardStatus =>
            /\ pc = "done"
            /\ outcome.kind = "raise"
            /\ outcome.error[2] = <<"Transcription failed", "HTTPError">>
            /\ nSleeps = requests - 1
            /\ ~Transcribed)
    /\ [][HardStatus => requests' = requests /\ nSleeps' = nSleeps]_vars

C2_Witness == HardStatus /\ requests = 3 /\ nSleeps = 2 /\ outcome.kind = "raise"

\* C3: when the first k attempts (0 <= k <= 4) were answered 503 and attempt
\* k+1 succeeded, the call returns the transcript of that response, trimmed,
\* with language "auto", after exactly k sleeps; and no sleep is ever longer
\* than 60 seconds.
C3_RetryThenSuccess ==
    /\ lastSleep <= 60
    /\ (Transcribed /\ n503 = requests - 1) =>
          /\ requests \in 1..5
          /\ nSleeps = n503
          /\ transcription_result.language = "auto"
          /\ IsTrimOf(transcription_result.text, rawText)

C3_Witness ==
    /\ Transcribed
    /\ n503 = 4
    /\ requests = 5
    /\ nSleeps = 4
    /\ lastSleep = 60
    /\ Len(rawText) > Len(transcription_result.text)
    /\ Len(transcription_result.text) > 0

\* C4: when the fifth attempt too ends in a 503 response or a transport fault,
\* the call raises the exhaustion error and returns no transcript.
C4_Exhaustion ==
    RanOut =>
       /\ pc = "done"
       /\ outcome = [kind |-> "raise",
                     error |-> <<"AI processing failed",
                                 <<"Transcription failed",
                                   "Whisper 5 denemede yanit vermedi">>>>]
       /\ ~Transcribed

C4_Witness == RanOut /\ n503 = 3 /\ lastStatus = FAULT /\ outcome.kind = "raise"

\* C5 (as claimed): after a 503 response the sleep is min(h, 60), h the hint
\* when there is one and 20 otherwise; after a transport fault it is 5; no
\* sleep is longer than 60.
C5_SleepByPath ==
    /\ lastStatus = 503 =>
          lastSleep = (IF lastHint.has /\ lastHint.num
                       THEN Min(lastHint.val, 60) ELSE 20)
    /\ lastStatus = FAULT => lastSleep = 5
    /\ lastSleep <= 60

\* C6: a transcript whose trimmed length is below 5 ends the run with the one
\* fixed unintelligible-audio result, and no later stage is invoked.
C6_ShortCircuit ==
    (Transcribed /\ TrimLen(rawText) < 5) =>
       /\ pc = "done"
       /\ outcome =
            [kind |-> "return",
             value |-> [transcription_text |-> <<"Ses kaydi anlasilamadi.">>,
                        sentiment_label |-> "neutral",
                        sentiment_score |-> 5,
                        ai_feedback |-> <<"Ses kalitesi dusuk oldugu icin analiz yapilamadi. Lutfen daha net kayit yapin.">>,
                        language |-> "unknown"]]
       /\ \A st \in Downstream : calls[st] = 0

C6_Witness ==
    /\ Transcribed
    /\ TrimLen(rawText) = 4
    /\ Len(rawText) = 5
    /\ outcome.kind = "return"

FullLog == <<Call("transcribe"), Ret("transcribe"), Call("acoustic"), Ret("acoustic"),
             Call("sentiment"), Ret("sentiment"), Call("feedback"), Ret("feedback")>>

\* C7: with a transcript of trimmed length 5 or more, the stages are invoked
\* once each, in the order transcription, acoustic analysis, sentiment,
\* feedback, each after the one before it returned; none is skipped or
\* invoked again.
C7_StagesInOrder ==
    (Transcribed /\ TrimLen(rawText) >= 5) =>
       /\ IsPrefix(log, FullLog)
       /\ \A st \in Stages : calls[st] <= 1
       /\ pc = "done" => (log = FullLog /\ \A st \in Stages : calls[st] = 1)
       /\ pc # "done" => Len(log) < Len(FullLog)

C7_Witness == pc = "done" /\ log = FullLog /\ TrimLen(rawText) = 5

\* C8: when transcribe_audio raises (hard failure or exhaustion), the run ends
\* in a failure raised to the caller, with no result and no later stage
\* invoked.
C8_TranscriptionFatal ==
    (HardStatus \/ RanOut) =>
       /\ pc = "done"
       /\ outcome.kind = "raise"
       /\ outcome.error[1] = "AI processing failed"
       /\ outcome.error[2][1] = "Transcription failed"
       /\ \A st \in Downstream : calls[st] = 0
       /\ audio_features = NONE /\ sentiment_result = NONE

C8_Witness == HardStatus /\ requests = 2 /\ n503 = 1 /\ outcome.kind = "raise"

\* C9: once transcription has succeeded the run returns a result and does not
\* raise, whatever the decoder and the two reasoning calls do.
C9_OnlyTranscriptionEscapes ==
    /\ (Transcribed /\ pc = "done") => outcome.kind = "return"
    /\ outcome.kind = "raise" => (~Transcribed /\ \A st \in Downstream : calls[st] = 0)

\* the decoder failed, the sentiment call gave the default and the feedback
\* call failed, and the run returned
C9_Witness ==
    /\ pc = "done"
    /\ outcome.kind = "return"
    /\ calls["feedback"] = 1
    /\ audio_features.description = <<"Ses tonu analizi yapilamadi">>
    /\ outcome.value.sentiment_label = "neutral"
    /\ outcome.value.sentiment_score = 5
    /\ outcome.value.ai_feedback =
          <<"Dusuncelerinizi paylastiginiz icin tesekkurler. ...">>

FiveFields == {"transcription_text", "sentiment_label", "sentiment_score",
               "ai_feedback", "language"}

Complete ==
    /\ outcome.kind = "return"
    /\ \A st \in Stages : calls[st] = 1
    /\ DOMAIN outcome.value = FiveFields
    /\ outcome.value.transcription_text = transcription_result.text
    /\ outcome.value.sentiment_label = sentiment_result.label
    /\ outcome.value.sentiment_score = sentiment_result.score
    /\ outcome.value.ai_feedback = ai_feedback
    /\ outcome.value.language = transcription_result.language

ShortCircuited ==
    /\ outcome.kind = "return"
    /\ \A st \in Downstream : calls[st] = 0
    /\ outcome.value.transcription_text = <<"Ses kaydi anlasilamadi.">>
    /\ outcome.value.language = "unknown"

Failed == outcome.kind = "raise"

\* C10: every run ends, and it ends in exactly one of: a complete result with
\* all five fields, the short-circuit result, a raised failure; until then
\* nothing is handed to the caller.
C10_EndsInOneOutcome ==
    /\ <>(pc = "done")
    /\ [](pc = "done" =>
            \/ (Complete /\ ~Failed)
            \/ (ShortCircuited /\ ~Failed)
            \/ (Failed /\ outcome.kind # "return"))
    /\ [](pc # "done" => outcome = NONE)

C10_Witness == pc = "done" /\ Complete /\ n503 = 1

\* ------------------------------------------ the stages called on their own
SentimentLabels == {"positive", "negative", "neutral"}
SentimentReturned == call # NONE /\ call.fn = "analyze_sentiment" /\ ret # NONE
FeedbackReturned == call # NONE /\ call.fn = "generate_feedback" /\ ret # NONE
AudioReturned == call # NONE /\ call.fn = "analyze_audio_features" /\ ret # NONE

\* the response text of call, as json.loads sees it
Parsed == JsonLoads(Unwrap(call.resp.content))
ParsesAsRecord == call.resp.kind = "text" /\ Parsed.ok /\ Parsed.v.obj
LabelGiven == Parsed.v.label.has /\ Parsed.v.label.str
ScoreGiven == Parsed.v.score.has /\ Parsed.v.score.num

\* C11: analyze_sentiment never raises, and when the reasoning call raises or
\* the response text does not parse as one record it returns exactly
\* {neutral, 0.5}.
C11_SentimentTotal ==
    SentimentReturned =>
        /\ ~ret.exc
        /\ ~ParsesAsRecord => ret.v = [label |-> "neutral", score |-> 5]

C11_Witness ==
    /\ SentimentReturned
    /\ call.resp.kind = "text"
    /\ ~Parsed.ok
    /\ ret = Ok([label |-> "neutral", score |-> 5])

\* C12: whatever analyze_sentiment returns has a label among positive,
\* negative, neutral and a score between 0 and 1, and so have sentiment_label
\* and sentiment_score of every result process_audio_full returns.
C12_SentimentInRange ==
    /\ SentimentReturned =>
           ret.v.label \in SentimentLabels /\ ret.v.score \in 0..10
    /\ sentiment_result # NONE =>
           sentiment_result.label \in SentimentLabels /\ sentiment_result.score \in 0..10
    /\ outcome.kind = "return" =>
           /\ outcome.value.sentiment_label \in SentimentLabels
           /\ outcome.value.sentiment_score \in 0..10

C12_Witness ==
    /\ outcome.kind = "return"
    /\ sentiment_result = [label |-> "positive", score |-> 10]
    /\ outcome.value.sentiment_label = "positive"
    /\ outcome.value.sentiment_score = 10

\* C13: when the response parses as a record whose label is outside the three
\* values, or whose label or score is missing, analyze_sentiment returns
\* exactly {neutral, 0.5}.
C13_DefaultOnBadField ==
    (/\ SentimentReturned
     /\ ParsesAsRecord
     /\ \/ ~Parsed.v.label.has
        \/ ~Parsed.v.score.has
        \/ LabelGiven /\ Parsed.v.label.val.word \notin SentimentLabels)
    => ret = Ok([label |-> "neutral", score |-> 5])

\* C14: for a parseable record with label L and numeric score s,
\* analyze_sentiment returns L lower-cased and trimmed when that is one of the
\* three values and neutral otherwise, with the score min(1, max(0, s)).
C14_Normalised ==
    (SentimentReturned /\ ParsesAsRecord /\ LabelGiven /\ ScoreGiven) =>
        LET L == Parsed.v.label.val.word
            s == Parsed.v.score.val
        IN ret = Ok([label |-> IF L \in SentimentLabels THEN L ELSE "neutral",
                     score |-> Min(10, Max(0, s))])

C14_Witness ==
    /\ SentimentReturned
    /\ call.resp = [kind |-> "text",
                    content |-> Plain([obj |-> TRUE,
                        label |-> [has |-> TRUE, str |-> TRUE,
                                   val |-> [word |-> "positive", case |-> "upper",
                                            pad |-> FALSE]],
                        score |-> [has |-> TRUE, num |-> TRUE, val |-> 17]])]
    /\ ret = Ok([label |-> "positive", score |-> 10])

\* C15: for every record R and every language tag T, analyze_sentiment
\* returns for R inside a fenced block tagged T what it returns for R alone.
C15_FenceTransparent ==
    \A tag \in Tags, v \in JsonValues :
        (SentimentReturned
         /\ call.resp = [kind |-> "text", content |-> Fenced(tag, v)])
        => ret = analyze_sentiment(call.text, call.voice_cues,
                                   [kind |-> "text", content |-> Plain(v)])

\* the canned messages, by label
Canned(label) ==
    IF label = "positive" THEN <<"Harika! ...">>
    ELSE IF label = "negative" THEN <<"Anliyorum, ...">>
    ELSE <<"Dusuncelerinizi paylastiginiz icin tesekkurler. ...">>

\* C16: generate_feedback never raises; when the reasoning call fails or its
\* response has no text it returns the canned message of the label, and the
\* neutral canned message for a label outside the three.
C16_FeedbackTotal ==
    FeedbackReturned =>
        /\ ~ret.exc
        /\ call.resp.kind \in {"raise", "null"} =>
               ret.v = IF call.sentiment \in SentimentLabels
                       THEN Canned(call.sentiment) ELSE Canned("neutral")

C16_Witness ==
    /\ FeedbackReturned
    /\ call.resp.kind = "raise"
    /\ call.sentiment = "angry"
    /\ ret = Ok(<<"Dusuncelerinizi paylastiginiz icin tesekkurler. ...">>)

\* C17: the tone phrase in the feedback request is the table's phrase for
\* positive, negative and neutral, and the neutral phrase for every other
\* label.
C17_TonePhraseDefault ==
    (call # NONE /\ call.fn = "generate_feedback" /\ sent # NONE) =>
        sent.tone = IF call.sentiment = "positive" THEN "mutlu ve pozitif"
                    ELSE IF call.sentiment = "negative" THEN "uzgun veya sikintili"
                    ELSE "sakin ve dusunceli"

\* the decoder handed call a whole number of samples, 100 or more
FullBuffer ==
    /\ AudioReturned
    /\ call.dec.ok
    /\ ~call.dec.odd
    /\ Len(call.dec.samples) >= 100

\* C18: for a buffer of fewer than 100 samples, and for every failure of the
\* decoder, analyze_audio_features returns energy_level unknown with the one
\* fixed description and no numeric feature, and does not raise.
C18_ShortBufferDegraded ==
    (AudioReturned /\ (~call.dec.ok \/ Len(call.dec.samples) < 100)) =>
        ret = Ok([description |-> <<"Ses analizi yapilamadi">>,
                  energy_level |-> "unknown"])

\* C19: for a buffer of 100 samples or more analyze_audio_features returns
\* full features without raising, and energy_cv is 0 when no window is valid
\* or the mean window energy is 0, and std / mean otherwise.
C19_NoUndefinedDivision ==
    FullBuffer =>
        /\ ~ret.exc
        /\ DOMAIN ret.v = {"description", "energy_level", "rms", "energy_cv", "zcr"}
        /\ ret.v.energy_level \in {"low", "medium", "high"}
        /\ ret.v.energy_cv.den > 0
        /\ LET e == Energies(call.dec.samples)
               k == Len(e)
               sum == SeqSum(e)
               sumsq == SeqSum([i \in 1..k |-> e[i] * e[i]])
           IN IF k = 0 \/ sum = 0
              THEN ret.v.energy_cv.num = 0
              ELSE ret.v.energy_cv = [num |-> k * sumsq - sum * sum, den |-> sum * sum]

C19_Witness ==
    /\ FullBuffer
    /\ Len(call.dec.samples) = 100
    /\ Energies(call.dec.samples) = <<>>
    /\ ~ret.exc
    /\ ret.v.energy_cv.num = 0
    /\ ret.v.energy_level = "high"

\* C20: for a buffer of 100 samples or more that all equal A, rms is |A|,
\* zcr is 0 and energy_cv is 0.
C20_ConstantBuffer ==
    (FullBuffer /\ \A i \in 1..Len(call.dec.samples) :
                      call.dec.samples[i] = call.dec.samples[1]) =>
        /\ ~ret.exc
        /\ ret.v.rms = Abs(call.dec.samples[1])
        /\ ret.v.zcr = 0
        /\ ret.v.energy_cv.num = 0

C20_Witness ==
    /\ FullBuffer
    /\ call.dec.samples = ConstBuf(SEG_SIZE + 101, -3)
    /\ Len(Energies(call.dec.samples)) = 2
    /\ ret.v.rms = 3
    /\ ret.v.zcr = 0
    /\ ret.v.energy_cv.num = 0

\* the adjacent pairs of s whose signs differ (zero counts as positive)
SignChanges(s) == Cardinality({i \in 2..Len(s) : (s[i] >= 0) # (s[i - 1] >= 0)})

\* C22: for a buffer of n >= 100 samples zcr is the number of adjacent pairs
\* whose signs differ divided by n - 1 (in thousandths here), which is exactly
\* 1 for a buffer alternating +A/-A, and lies between 0 and 1.
C22_ZcrOverPairs ==
    FullBuffer =>
        /\ ~ret.exc
        /\ ret.v.zcr = (1000 * SignChanges(call.dec.samples))
                           \div (Len(call.dec.samples) - 1)
        /\ ret.v.zcr \in 0..1000

\* C23: the description of a full analysis is one loudness cue by rms
\* (> 3000, > 1500, > 500, else), one variability cue by energy_cv (> 0.6,
\* > 0.35, else), at most one pitch cue (zcr > 0.15, zcr < 0.05) and at most
\* one transient cue (peak > 20000), in this order; 2 to 4 cues, and a value
\* equal to a threshold takes the lower tier.
C23_CueTable ==
    FullBuffer =>
        LET s == call.dec.samples
            n == Len(s)
            meansq == SumSq(s, 1, n) \div n
            exact == SumSq(s, 1, n) % n = 0
            over(t) == meansq > t * t \/ (meansq = t * t /\ ~exact)
            cv == ret.v.energy_cv
            zc == SignChanges(s)
            peak == CHOOSE m \in {Abs(s[i]) : i \in 1..n} :
                        \A i \in 1..n : Abs(s[i]) <= m
            d == ret.v.description
            loud == IF over(3000) THEN "loud" ELSE IF over(1500) THEN "normal"
                    ELSE IF over(500) THEN "quiet" ELSE "very_quiet"
            vary == IF 25 * cv.num > 9 * cv.den THEN "highly_variable"
                    ELSE IF 400 * cv.num > 49 * cv.den THEN "varied"
                    ELSE "monotone"
            pitch == IF 100 * zc > 15 * n THEN <<"high_freq">>
                     ELSE IF 100 * zc < 5 * n THEN <<"low_heavy">> ELSE <<>>
            burst == IF peak > 20000 THEN <<"bursts">> ELSE <<>>
        IN /\ ~ret.exc
           /\ Len(d) \in 2..4
           /\ d = <<loud, vary>> \o pitch \o burst

C23_Witness ==
    /\ FullBuffer
    /\ call.dec.samples = StepBuf(SEG_SIZE + 101, 4, 1)
    /\ ret.v.energy_cv = [num |-> 9, den |-> 25]
    /\ ret.v.description = <<"very_quiet", "varied", "low_heavy">>

\* ------------------------------------------------- the pipeline, continued
\* the run went past the short circuit and returned a result
WentThrough == pc = "done" /\ outcome.kind = "return" /\ calls["feedback"] = 1

\* C24: on the path past the short circuit the transcript transcription
\* returned is the text given to analyze_sentiment and to generate_feedback
\* and the text of the result, uncut; the label given to generate_feedback
\* and the result's sentiment_label are the label analyze_sentiment returned,
\* one of the three; the feedback of the result is what generate_feedback
\* returned; language is "auto".
C24_DataFlow ==
    WentThrough =>
        /\ transcription_result.text = strip(rawText)
        /\ stageArgs.sentiment.text = transcription_result.text
        /\ stageArgs.feedback.transcription = transcription_result.text
        /\ outcome.value.transcription_text = transcription_result.text
        /\ stageArgs.feedback.sentiment = sentiment_result.label
        /\ outcome.value.sentiment_label = sentiment_result.label
        /\ sentiment_result.label \in {"positive", "negative", "neutral"}
        /\ outcome.value.ai_feedback = ai_feedback
        /\ outcome.value.language = "auto"

C24_Witness ==
    /\ WentThrough
    /\ rawText = <<"a", " ", "a", "a", "a">>
    /\ stageArgs.sentiment.text = <<"a", " ", "a", "a", "a">>
    /\ stageArgs.feedback = [transcription |-> <<"a", " ", "a", "a", "a">>,
                             sentiment |-> "positive"]
    /\ outcome.value.sentiment_label = "positive"
    /\ outcome.value.ai_feedback = <<"a">>

\* the run ended because the retry loop ran out
RaisedExhaustion ==
    outcome = [kind |-> "raise",
               error |-> <<"AI processing failed",
                           <<"Transcription failed",
                             "Whisper 5 denemede yanit vermedi">>>>]

\* C26: every attempt that ends in a 503 response or a transport fault is
\* followed by a sleep, the fifth too: while the loop runs every attempt made
\* so far has slept, and a call that ran out of attempts slept 5 times.
C26_SleepAfterEveryRetry ==
    /\ pc = "transcribe" => nSleeps = attempt
    /\ lastStatus \in {503, FAULT} => nSleeps = attempt
    /\ RaisedExhaustion => nSleeps = 5 /\ requests = 5

C26_Witness == RaisedExhaustion /\ nSleeps = 5 /\ n503 = 5 /\ lastSleep = 20

\* C27: a success response whose body is no JSON object, or whose text is no
\* string, is treated like a transport fault: the attempt is consumed, the
\* client sleeps 5 seconds and retries (or runs out); nothing is returned and
\* no failure is raised at once.  A success response without a text field is
\* returned as an empty transcript.
C27_BadBodyIsFault ==
    /\ lastOkBody \in {"notjson", "nonobject", "badtext"} =>
          /\ lastSleep = 5
          /\ nSleeps = attempt
          /\ requests = attempt
          /\ ~Transcribed
          /\ IF attempt < 5 THEN pc = "transcribe" /\ outcome = NONE
             ELSE RaisedExhaustion
    /\ lastOkBody = "notext" =>
          /\ Transcribed
          /\ transcription_result.text = <<>>
          /\ outcome.kind # "raise"

C27_Witness ==
    /\ lastOkBody = "badtext"
    /\ attempt = 2
    /\ n503 = 1
    /\ lastSleep = 5
    /\ pc = "transcribe"

\* the acoustic analysis of the run is degraded
Degraded == audio_features # NONE /\ audio_features.energy_level = "unknown"

\* C28: when the acoustic analysis is degraded, analyze_sentiment is still
\* invoked, with the analysis-unavailable description as the cue string, and
\* its request holds the voice-tone section; the section is left out only
\* for an empty cue string.
C28_DegradedCuesPassed ==
    /\ (Degraded /\ pc \in {"feedback", "done"}) =>
           /\ calls["sentiment"] = 1
           /\ stageArgs.sentiment.voice_cues = audio_features.description
           /\ stageArgs.sentiment.voice_cues # <<>>
           /\ stageArgs.sentiment.request.voice_section
           /\ stageArgs.sentiment.request.cues = audio_features.description
    /\ stageArgs.sentiment # NONE =>
           (stageArgs.sentiment.request.voice_section
               <=> stageArgs.sentiment.voice_cues # <<>>)

C28_Witness ==
    /\ Degraded
    /\ pc = "feedback"
    /\ audio_features.description = <<"Ses analizi yapilamadi">>
    /\ stageArgs.sentiment.request.voice_section
    /\ stageArgs.sentiment.request.cues = <<"Ses analizi yapilamadi">>

\* ------------------------------------------------------- the HTTP endpoints
\* the step is a delete_entry request answered with status st
DeleteAnswered(st) ==
    reply' # NONE /\ reply'.op = "delete_entry" /\ reply'.status = st

\* every entry but id, and its audio file, is after the step as before it
OthersUntouched(id) ==
    /\ DOMAIN db' = DOMAIN db \ {id}
    /\ \A j \in DOMAIN db \ {id} :
          /\ db'[j] = db[j]
          /\ db[j] \in disk' <=> db[j] \in disk

\* id is gone for a client: 404 from get_entry and get_audio, not listed
Gone(d, files, id) ==
    /\ GetEntryStatus(d, id, TRUE) = 404
    /\ GetAudioStatus(d, files, id, TRUE) = 404
    /\ id \notin Listed(d)

\* C25 (as claimed): once delete_entry(id) has answered success, id is gone
\* in every later state; the delete leaves every other entry and its file
\* unchanged; delete_entry of an id that does not exist answers 404 and
\* changes nothing.
C25_DeletedStaysGone ==
    [][/\ \A id \in deleted' : Gone(db', disk', id)
       /\ DeleteAnswered(200) => OthersUntouched(reply'.id)
       /\ DeleteAnswered(404) => db' = db /\ disk' = disk]_vars

\* C25 (amended): when delete_entry(id) answers success, id is gone and
\* every other entry and its file are unchanged; id stays gone until an
\* upload_audio stores a new entry under it; delete_entry of an id that does
\* not exist answers 404 and changes nothing.
C25_DeletedUntilReused ==
    [][/\ DeleteAnswered(200) =>
             /\ reply'.id \in DOMAIN db
             /\ Gone(db', disk', reply'.id)
             /\ OthersUntouched(reply'.id)
       /\ \A id \in deleted :
             (Gone(db, disk, id) /\ ~Gone(db', disk', id)) =>
                 reply'.op = "upload_audio" /\ NextId(db) = id
       /\ DeleteAnswered(404) =>
             /\ reply'.id \notin DOMAIN db
             /\ db' = db /\ disk' = disk]_vars

C25_Witness ==
    /\ reply = [op |-> "delete_entry", id |-> 1, status |-> 200]
    /\ 1 \in deleted
    /\ Gone(db, disk, 1)
    /\ 2 \in DOMAIN db
    /\ db[2] \in disk

\* the step is an upload_audio request
Uploaded == reply' # NONE /\ reply'.op = "upload_audio"

\* C29: an upload larger than MAX_FILE_SIZE is answered with 400, and so is
\* an upload whose extension is not allowed; neither writes a file nor
\* creates an entry.
C29_RejectedWith400 ==
    [][(Uploaded /\ (reply'.size > 52428800
                     \/ Lower(reply'.ext) \notin {".m4a", ".mp3", ".wav", ".aac"}))
       => (reply'.status = 400 /\ disk' = disk /\ db' = db)]_vars

\* C30: after every request has been answered, every stored entry's audio
\* file is in the upload directory and every file there belongs to a stored
\* entry.
C30_FilesMatchEntries ==
    /\ \A id \in DOMAIN db : db[id] \in disk
    /\ \A f \in disk : \E id \in DOMAIN db : db[id] = f

\* ------------------------------------------------------- concurrent calls
\* what one process_audio_full call, running alone, makes of the inputs h:
\* the responses to its requests, then what the decoder and the two
\* reasoning calls gave it
AfterTranscript(h, tr) ==
    IF Len(h) < 3 THEN [done |-> FALSE]
    ELSE LET af == analyze_audio_features(h[1]).v
             sr == analyze_sentiment(tr.text, af.description, h[2]).v
             fb == generate_feedback(tr.text, sr.label, h[3]).v
         IN [done |-> TRUE,
             outcome |-> [kind |-> "return",
                          value |-> [transcription_text |-> tr.text,
                                     sentiment_label |-> sr.label,
                                     sentiment_score |-> sr.score,
                                     ai_feedback |-> fb,
                                     language |-> tr.language]]]

RECURSIVE Alone(_, _)
Alone(h, att) ==
    IF h = <<>> THEN [done |-> FALSE]
    ELSE LET end == LoopStep(att, Head(h)) IN
         CASE end.kind = "retry" -> Alone(Tail(h), att + 1)
           [] end.kind = "raise" ->
                [done |-> TRUE,
                 outcome |-> [kind |-> "raise",
                              error |-> <<"AI processing failed",
                                          <<"Transcription failed", end.cause>>>>]]
           [] end.kind = "return" ->
                IF end.text = <<>> \/ Len(strip(end.text)) < 5
                THEN [done |-> TRUE,
                      outcome |-> [kind |-> "return", value |-> UNINTELLIGIBLE]]
                ELSE AfterTranscript(Tail(h), [text |-> end.text,
                                               language |-> end.language])

\* C21: under every interleaving of concurrent process_audio_full calls on
\* one instance, the instance's token, headers and client stay as
\* constructed, and each call's result is what the call would make of its
\* own inputs alone.
C21_NoInterference ==
    /\ service = [api_token |-> "hf_token",
                  headers |-> {<<"Authorization", "hf_token">>},
                  hf_client |-> [token |-> "hf_token"]]
    /\ \A r \in Runs :
          LET a == Alone(runs[r].seen, 0) IN
          /\ runs[r].pc = "done" <=> a.done
          /\ a.done => runs[r].outcome = a.outcome
          /\ ~a.done => runs[r].outcome = NONE
          /\ runs[r].seen # <<>> =>
                 runs[r].headers = {<<"Authorization", "hf_token">>,
                                    <<"Content-Type", "audio/m4a">>}

C21_Witness ==
    /\ runs[1].pc = "done"
    /\ runs[1].outcome.kind = "return"
    /\ runs[1].outcome.value.sentiment_label = "positive"
    /\ runs[2].pc = "done"
    /\ runs[2].outcome.kind = "raise"
    /\ Len(runs[1].seen) = 5
    /\ Len(runs[2].seen) = 5

====
